---- MODULE Spec2Model ----
(***************************************************************************)
(* Progressive status reporter (ProgressiveTask) and chunked streaming     *)
(* responder (StreamingResponse) of async_handler.py, on one Discord       *)
(* channel; the callers of the reporter; and the message handler and the   *)
(* developer commands of the bot (discord_ai_bot.py,                       *)
(* discord_dev_commands.py).                                               *)
(*                                                                         *)
(* Texts are sequences of tokens.  A token is a string standing for one    *)
(* character or one caller-supplied fragment; the non-ASCII characters of  *)
(* the source are written by name: "BULLET" is U+2022, "CHECK" is U+2713,  *)
(* "CROSS" is U+274C, "NL" is the newline character.  Caller-supplied      *)
(* status texts are single-line (they hold no "NL").                       *)
(*                                                                         *)
(* The clock counts half seconds, so that update_interval (0.5 s) is one   *)
(* unit and every elapsed time has an exact one-decimal rendering.         *)
(***************************************************************************)
EXTENDS Integers, Sequences, FiniteSets, TLC

VARIABLES
    kind,          \* which class was constructed: "task" | "stream"
    clock,         \* time.time(), in half seconds
    live,          \* ids of the messages that exist on the channel
    msgCount,      \* number of messages sent on the channel so far (ids 1..msgCount)
    message,       \* self.message: 0 is None, otherwise a message id
    start_time,    \* ProgressiveTask.start_time
    status_lines,  \* ProgressiveTask.status_lines
    is_complete,   \* ProgressiveTask.is_complete
    buffer,        \* StreamingResponse.buffer
    last_update,   \* StreamingResponse.last_update
    last,          \* what the most recent step did: operation, arguments, outcome, channel calls
    starts,        \* number of start() calls so far
    terminals,     \* number of complete()/error() calls so far
    log,           \* the calls made on the instance so far, with the time each began and ended
    run,           \* run_with_progress and the scripted callers: where the caller stands
    procs,         \* parallel_tasks_with_status: where each run_task coroutine stands
    received,      \* the message on_message is handling, or the command invocation
    botpc,         \* where on_message (or the command) stands
    response,      \* on_message: the text returned by get_ai_response
    sent,          \* the texts sent to the channel of the message, in the order sent
    reached,       \* the parts of the bot that have run for the message
    stdout         \* sys.stdout: "console", or "buffer" while output is captured

vars == <<kind, clock, live, msgCount, message, start_time, status_lines,
          is_complete, buffer, last_update, last, starts, terminals, log, run, procs,
          received, botpc, response, sent, reached, stdout>>

taskVars == <<start_time, status_lines, is_complete, starts, terminals>>
streamVars == <<buffer, last_update>>
callerVars == <<log, run, procs>>
botVars == <<received, botpc, response, sent, reached, stdout>>

----------------------------------------------------------------------------
(* Bounds of the model *)

MaxLines == 4          \* status_lines grows to at most this many lines under Spec
MaxWindowLines == 14   \* ... and to this many under SpecWindow
MaxMsgs == 3           \* messages sent on the channel
MaxTicks == 2          \* clock advances
MaxStreamTicks == 3    \* clock advances, those within a flush included, under SpecStream
MaxStarts == 2         \* start() calls on one instance
MaxTerminals == 2      \* complete()/error() calls on one instance
MaxChunks == 3         \* add_chunk() calls on one instance
MaxCalls == 3          \* calls recorded in log
MaxUpdates == 2        \* length of the updates list given to run_with_progress
MaxTasks == 2          \* entries of the tasks dict given to parallel_tasks_with_status
ClockStart == 2        \* time.time() at construction (any value above update_interval)

(* Program constants *)

WindowThreshold == 10  \* len(self.status_lines) > 10
HeadLines == 2         \* self.status_lines[:2]
TailLines == 7         \* self.status_lines[-7:]
TruncateAt == 1900     \* len(display_text) > 1900, display_text[:1900]
UpdateInterval == 1    \* self.update_interval = 0.5 (seconds; one clock unit)
MsgLimit == 2000       \* Discord's 2000 char limit on the content of a message
ChunkSize == 1900      \* response[i:i+1900], range(0, len(response), 1900)

----------------------------------------------------------------------------
(* Inputs *)

TaskName == "Sync"                  \* task_name given to the constructor
Texts == {<<"a">>, <<"b">>}         \* caller-supplied status texts
NoText == <<>>                      \* None or "": both are falsy, the code tests truthiness only
OptTexts == {NoText, <<"a">>}         \* optional texts: initial_status, final_status
ErrorTexts == {<<"a">>}             \* error messages
ChunkA == <<[ch |-> "x", n |-> 1900]>>
ChunkB == <<[ch |-> "y", n |-> 100]>>
Chunks == {ChunkA, ChunkB}          \* chunks as runs of n equal characters
FlushTimes == {0, 1}                \* time a send or an edit of a flush may take
TaskResult == "R"                   \* what task_func() returns
TaskFailure == "TaskError"          \* the exception task_func() raises, and its text

----------------------------------------------------------------------------
(* Helpers *)

RECURSIVE Join(_)
\* "\n".join(lines)
Join(lines) ==
    IF lines = <<>> THEN <<>>
    ELSE IF Len(lines) = 1 THEN lines[1]
    ELSE lines[1] \o <<"NL">> \o Join(Tail(lines))

RECURSIVE SplitLines(_)
\* text.split("\n"): the lines of a rendered text
SplitLines(text) ==
    IF \A i \in 1..Len(text) : text[i] # "NL" THEN <<text>>
    ELSE LET k == CHOOSE i \in 1..Len(text) :
                      text[i] = "NL" /\ \A j \in 1..(i-1) : text[j] # "NL"
         IN  <<SubSeq(text, 1, k-1)>> \o SplitLines(SubSeq(text, k+1, Len(text)))

\* f"{elapsed:.1f}" for an elapsed time of e half seconds
Fmt1(e) ==
    LET a == IF e < 0 THEN 0 - e ELSE e
    IN  <<(IF e < 0 THEN "-" ELSE "") \o ToString(a \div 2)
            \o (IF a % 2 = 0 THEN ".0" ELSE ".5")>>

\* f"**{self.task_name}**"
Header(name) == <<"**", name, "**">>

\* f"Starting {self.task_name}..."
DefaultStatus(name) == <<"Starting ", name, "...">>

\* a bullet line written without its bullet
BulletForgotten(status) == status

\* f"• {status}"
Bullet(status) == <<"BULLET", " ">> \o status

IsBullet(line) == Len(line) >= 1 /\ line[1] = "BULLET"

\* f"✓ Complete ({elapsed:.1f}s)"
CompleteLine(e) == <<"CHECK", " Complete (">> \o Fmt1(e) \o <<"s)">>

\* f"❌ Error: {error_msg}"
ErrorLine(msg) == <<"CROSS", " Error: ">> \o msg

\* f"Failed after {elapsed:.1f}s"
FailedLine(e) == <<"Failed after ">> \o Fmt1(e) \o <<"s">>

Ellipsis == <<"...">>

\* the window the source's comment describes ("Keep first 2 and last 8 lines")
WindowedLinesLast8(lines) ==
    IF Len(lines) > WindowThreshold
    THEN SubSeq(lines, 1, HeadLines) \o <<Ellipsis>>
         \o SubSeq(lines, Len(lines) - TailLines, Len(lines))
    ELSE lines

\* a window that keeps the last lines only
WindowedLinesTail(lines) ==
    IF Len(lines) > WindowThreshold
    THEN <<Ellipsis>> \o SubSeq(lines, Len(lines) - TailLines + 1, Len(lines))
    ELSE lines

\* ProgressiveTask._format_status, before the join
WindowedLines(lines) ==
    IF Len(lines) > WindowThreshold
    THEN SubSeq(lines, 1, HeadLines) \o <<Ellipsis>>
         \o SubSeq(lines, Len(lines) - TailLines + 1, Len(lines))
    ELSE lines

\* ProgressiveTask._format_status
FormatStatus(lines) == Join(WindowedLines(lines))

\* start() that keeps the lines already there
StartLinesKept(name, initial_status) ==
    status_lines \o
    <<Header(name), IF initial_status # <<>> THEN initial_status ELSE DefaultStatus(name)>>

\* start(): status = initial_status or default; status_lines = [header, status]
StartLines(name, initial_status) ==
    <<Header(name), IF initial_status # <<>> THEN initial_status ELSE DefaultStatus(name)>>

\* update() that ignores its append flag
UpdatedLinesAlwaysAppend(lines, status, append) == Append(lines, Bullet(status))

\* update() that always overwrites the last line
UpdatedLinesAlwaysReplace(lines, status, append) ==
    [lines EXCEPT ![Len(lines)] = Bullet(status)]

\* update(): append a bullet line, or overwrite status_lines[-1] (lines is non-empty)
UpdatedLines(lines, status, append) ==
    IF append THEN Append(lines, Bullet(status))
    ELSE [lines EXCEPT ![Len(lines)] = Bullet(status)]

\* complete() that appends the closing line without testing it
CompleteLinesUntested(lines, final_status, e) ==
    Append(lines, final_status) \o <<CompleteLine(e)>>

\* complete(): the optional closing line, then the completion line
CompleteLines(lines, final_status, e) ==
    (IF final_status # <<>> THEN Append(lines, final_status) ELSE lines)
        \o <<CompleteLine(e)>>

\* error() that leaves out the failed-after line
ErrorLinesShort(lines, error_msg, e) == Append(lines, ErrorLine(error_msg))

\* error(): the error line, then the failed-after line
ErrorLines(lines, error_msg, e) ==
    lines \o <<ErrorLine(error_msg), FailedLine(e)>>

----------------------------------------------------------------------------
(* The channel *)

\* Message.edit: NotFound when the message was deleted; otherwise it succeeds or
\* the platform rejects it (HTTPException: too large, rate limit, forbidden)
EditResults(m) == IF m \in live THEN {"ok", "HTTPException"} ELSE {"NotFound"}

\* update() with no except clause
CaughtByUpdateNothing == {}

\* update() with except discord.errors.HTTPException
CaughtByUpdateAnything == {"NotFound", "HTTPException"}

\* the exceptions of Message.edit that update() catches: except discord.errors.NotFound
CaughtByUpdate == {"NotFound"}

\* the exceptions of Message.edit that complete() and error() catch: none
CaughtByTerminal == {}

\* the exceptions of Message.edit that _update_message() catches:
\* except discord.errors.HTTPException, of which NotFound is a subclass
CaughtByStream == {"NotFound", "HTTPException"}

SendCall(m, text) == [call |-> "send", msg |-> m, text |-> text, result |-> "ok"]
EditCall(m, text, r) == [call |-> "edit", msg |-> m, text |-> text, result |-> r]

Did(op, arg, append, raised, calls) ==
    [op |-> op, arg |-> arg, append |-> append, raised |-> raised, calls |-> calls]

\* channel.send(text): a new message, which this instance owns from now on
SendNew(text) ==
    /\ msgCount < MaxMsgs
    /\ msgCount' = msgCount + 1
    /\ live' = live \cup {msgCount + 1}
    /\ message' = msgCount + 1

\* try: message.edit(text)  except <caught>: message = channel.send(text)
\* With no owned message nothing is done.  op, arg, append describe the caller.
EditOwned(text, caught, op, arg, append) ==
    IF message = 0
    THEN /\ last' = Did(op, arg, append, "none", <<>>)
         /\ UNCHANGED <<live, msgCount, message>>
    ELSE \E r \in EditResults(message) :
            IF r = "ok"
            THEN /\ last' = Did(op, arg, append, "none", <<EditCall(message, text, r)>>)
                 /\ UNCHANGED <<live, msgCount, message>>
            ELSE IF r \in caught
            THEN /\ SendNew(text)
                 /\ last' = Did(op, arg, append, "none",
                                <<EditCall(message, text, r), SendCall(msgCount + 1, text)>>)
            ELSE /\ last' = Did(op, arg, append, r, <<EditCall(message, text, r)>>)
                 /\ UNCHANGED <<live, msgCount, message>>

----------------------------------------------------------------------------
(* ProgressiveTask *)

Start(initial_status) ==
    /\ kind = "task"
    /\ starts < MaxStarts
    /\ LET lines == StartLines(TaskName, initial_status)
       IN  /\ status_lines' = lines
           /\ SendNew(FormatStatus(lines))
           /\ last' = Did("start", initial_status, TRUE, "none",
                          <<SendCall(msgCount + 1, FormatStatus(lines))>>)
    /\ starts' = starts + 1
    /\ UNCHANGED <<kind, clock, start_time, is_complete, terminals, streamVars, botVars>>

Update(status, append) ==
    /\ kind = "task"
    /\ IF ~append /\ status_lines = <<>>
       THEN \* self.status_lines[-1] = ... on an empty list
            /\ last' = Did("update", status, append, "IndexError", <<>>)
            /\ UNCHANGED <<status_lines, live, msgCount, message>>
       ELSE LET lines == UpdatedLines(status_lines, status, append)
            IN  /\ status_lines' = lines
                /\ EditOwned(FormatStatus(lines), CaughtByUpdate, "update", status, append)
    /\ UNCHANGED <<kind, clock, start_time, is_complete, starts, terminals, streamVars, botVars>>

Complete(final_status) ==
    /\ kind = "task"
    /\ terminals < MaxTerminals
    /\ LET lines == CompleteLines(status_lines, final_status, clock - start_time)
       IN  /\ is_complete' = TRUE
           /\ status_lines' = lines
           /\ EditOwned(FormatStatus(lines), CaughtByTerminal, "complete", final_status, TRUE)
    /\ terminals' = terminals + 1
    /\ UNCHANGED <<kind, clock, start_time, starts, streamVars, botVars>>

Error(error_msg) ==
    /\ kind = "task"
    /\ terminals < MaxTerminals
    /\ LET lines == ErrorLines(status_lines, error_msg, clock - start_time)
       IN  /\ is_complete' = TRUE
           /\ status_lines' = lines
           /\ EditOwned(FormatStatus(lines), CaughtByTerminal, "error", error_msg, TRUE)
    /\ terminals' = terminals + 1
    /\ UNCHANGED <<kind, clock, start_time, starts, streamVars, botVars>>

----------------------------------------------------------------------------
(* StreamingResponse *)

RECURSIVE TextLen(_)
\* len(text) for a text given as runs
TextLen(text) == IF text = <<>> THEN 0 ELSE text[1].n + TextLen(Tail(text))

RECURSIVE Prefix(_, _)
\* text[:k] for a text given as runs
Prefix(text, k) ==
    IF k <= 0 \/ text = <<>> THEN <<>>
    ELSE IF text[1].n <= k THEN <<text[1]>> \o Prefix(Tail(text), k - text[1].n)
    ELSE <<[ch |-> text[1].ch, n |-> k]>>

\* _update_message that truncates the final flush too
DisplayTextAlwaysCut(buf, final) ==
    IF TextLen(buf) > TruncateAt
    THEN Prefix(buf, TruncateAt) \o <<[ch |-> ".", n |-> 3]>>
    ELSE buf

\* _update_message that truncates from 1900 characters on
DisplayTextCutAt(buf, final) ==
    IF ~final /\ TextLen(buf) >= TruncateAt
    THEN Prefix(buf, TruncateAt) \o <<[ch |-> ".", n |-> 3]>>
    ELSE buf

\* _update_message: the text shown
DisplayText(buf, final) ==
    IF ~final /\ TextLen(buf) > TruncateAt
    THEN Prefix(buf, TruncateAt) \o <<[ch |-> ".", n |-> 3]>>
    ELSE buf

\* a text the platform refuses, in a send as in an edit
TooLarge(text) == TextLen(text) > MsgLimit

\* channel.send(text) refused by the platform
RefusedSend(text) == [call |-> "send", msg |-> 0, text |-> text, result |-> "HTTPException"]

\* Message.edit of a StreamingResponse: NotFound when the message was deleted,
\* refused when the text is too large, and otherwise as for any edit
StreamEditResults(m, text) ==
    IF m \in live /\ TooLarge(text) THEN {"HTTPException"} ELSE EditResults(m)

\* channel.send(text) in _update_message, then self.last_update = time.time(),
\* d later; a refused send raises out of _update_message
StreamSend(text, before, final, op, arg, d) ==
    IF TooLarge(text)
    THEN /\ last' = Did(op, arg, final, "HTTPException", before \o <<RefusedSend(text)>>)
         /\ UNCHANGED <<live, msgCount, message, last_update>>
    ELSE /\ SendNew(text)
         /\ last' = Did(op, arg, final, "none", before \o <<SendCall(msgCount + 1, text)>>)
         /\ last_update' = clock + d

\* StreamingResponse._update_message(final), which takes the time d
UpdateMessage(buf, final, op, arg, d) ==
    LET text == DisplayText(buf, final)
    IN  /\ clock + d <= ClockStart + MaxStreamTicks
        /\ clock' = clock + d
        /\ IF message = 0
           THEN StreamSend(text, <<>>, final, op, arg, d)
           ELSE \E r \in StreamEditResults(message, text) :
                   IF r = "ok"
                   THEN /\ last' = Did(op, arg, final, "none", <<EditCall(message, text, r)>>)
                        /\ last_update' = clock + d
                        /\ UNCHANGED <<live, msgCount, message>>
                   ELSE IF r \in CaughtByStream
                   THEN StreamSend(text, <<EditCall(message, text, r)>>, final, op, arg, d)
                   ELSE /\ last' = Did(op, arg, final, r, <<EditCall(message, text, r)>>)
                        /\ UNCHANGED <<live, msgCount, message, last_update>>

\* add_chunk() that flushes once the interval is reached
FlushDueAtInterval(now, flushed) == now - flushed >= UpdateInterval

\* add_chunk() that flushes every chunk
FlushDueAlways(now, flushed) == TRUE

\* add_chunk: time.time() - self.last_update > self.update_interval
FlushDue(now, flushed) == now - flushed > UpdateInterval

AddChunk(chunk) ==
    /\ kind = "stream"
    /\ Len(buffer) < MaxChunks
    /\ buffer' = buffer \o chunk
    /\ IF FlushDue(clock, last_update)
       THEN \E d \in FlushTimes : UpdateMessage(buffer \o chunk, FALSE, "add_chunk", chunk, d)
       ELSE /\ last' = Did("add_chunk", chunk, FALSE, "none", <<>>)
            /\ UNCHANGED <<clock, live, msgCount, message, last_update>>
    /\ UNCHANGED <<kind, taskVars, botVars>>

Finish ==
    /\ kind = "stream"
    /\ \E d \in FlushTimes : UpdateMessage(buffer, TRUE, "finish", <<>>, d)
    /\ UNCHANGED <<kind, buffer, taskVars, botVars>>

----------------------------------------------------------------------------
(* The environment *)

\* time passes, up to the time latest
TickUpTo(latest) ==
    /\ clock < latest
    /\ clock' = clock + 1
    /\ last' = Did("tick", <<>>, FALSE, "none", <<>>)
    /\ UNCHANGED <<kind, live, msgCount, message, taskVars, streamVars, botVars>>

Tick == TickUpTo(ClockStart + MaxTicks)

\* the system clock is set back (time.time() is the wall clock, not a
\* monotonic one)
ClockSetBack ==
    /\ clock > 0
    /\ clock' = clock - 1
    /\ last' = Did("set_back", <<>>, FALSE, "none", <<>>)
    /\ UNCHANGED <<kind, live, msgCount, message, taskVars, streamVars, botVars>>

\* a user or moderator deletes a message of the channel
DeleteMessage(m) ==
    /\ m \in live
    /\ live' = live \ {m}
    /\ last' = Did("delete", <<>>, FALSE, "none", <<>>)
    /\ UNCHANGED <<kind, clock, msgCount, message, taskVars, streamVars, botVars>>

----------------------------------------------------------------------------
(* Specifications *)

\* no caller script is running
Idle == [pc |-> "idle"]

\* no message has arrived
NoMessage == [author |-> "none"]

\* the state after ProgressiveTask(channel, TaskName) or StreamingResponse(channel)
Init ==
    /\ kind \in {"task", "stream"}
    /\ clock = ClockStart
    /\ live = {}
    /\ msgCount = 0
    /\ message = 0
    /\ start_time = ClockStart
    /\ status_lines = <<>>
    /\ is_complete = FALSE
    /\ buffer = <<>>
    /\ last_update = 0
    /\ last = Did("init", <<>>, FALSE, "none", <<>>)
    /\ starts = 0
    /\ terminals = 0
    /\ log = <<>>
    /\ run = Idle
    /\ procs = <<>>
    /\ received = NoMessage
    /\ botpc = "idle"
    /\ response = <<>>
    /\ sent = <<>>
    /\ reached = {}
    /\ stdout = "console"

\* room for n more lines below the bound
Room(n, bound) == Len(status_lines) + n <= bound

Next ==
    \/ \E s \in OptTexts : Start(s) /\ UNCHANGED callerVars
    \/ \E s \in Texts, a \in BOOLEAN :
          Room(IF a THEN 1 ELSE 0, MaxLines) /\ Update(s, a) /\ UNCHANGED callerVars
    \/ \E s \in OptTexts :
          Room(IF s # <<>> THEN 2 ELSE 1, MaxLines) /\ Complete(s) /\ UNCHANGED callerVars
    \/ \E s \in ErrorTexts : Room(2, MaxLines) /\ Error(s) /\ UNCHANGED callerVars
    \/ \E c \in Chunks : AddChunk(c) /\ UNCHANGED callerVars
    \/ Finish /\ UNCHANGED callerVars
    \/ Tick /\ UNCHANGED callerVars
    \/ \E m \in live : DeleteMessage(m) /\ UNCHANGED callerVars

Spec == Init /\ [][Next]_vars

\* One task driven the way the callers of the repository drive it: start() once,
\* then update() calls, then one complete() or error(); long enough for the
\* windowing of _format_status to act.
InitWindow == Init /\ kind = "task"

NextWindow ==
    \/ starts = 0 /\ Start(NoText) /\ UNCHANGED callerVars
    \/ /\ starts = 1 /\ terminals = 0
       /\ \E s \in Texts, a \in BOOLEAN :
              Room(IF a THEN 1 ELSE 0, MaxWindowLines - 1) /\ Update(s, a)
       /\ UNCHANGED callerVars
    \/ /\ starts = 1 /\ terminals = 0
       /\ \E s \in OptTexts : Room(IF s # <<>> THEN 2 ELSE 1, MaxWindowLines) /\ Complete(s)
       /\ UNCHANGED callerVars
    \/ /\ starts = 1 /\ terminals = 0
       /\ \E s \in ErrorTexts : Room(2, MaxWindowLines) /\ Error(s)
       /\ UNCHANGED callerVars

SpecWindow == InitWindow /\ [][NextWindow]_vars

\* the call just made, as log keeps it
Logged == [did |-> last', began |-> clock, ended |-> clock']

Recorded == log' = Append(log, Logged)

Record == Recorded /\ UNCHANGED <<run, procs>>

\* One StreamingResponse and the history of the calls made on it.
InitStream == Init /\ kind = "stream"

NextStream ==
    \/ \E c \in Chunks : Len(log) < MaxCalls /\ AddChunk(c) /\ Record
    \/ Len(log) < MaxCalls /\ Finish /\ Record
    \/ TickUpTo(ClockStart + MaxStreamTicks) /\ UNCHANGED callerVars
    \/ \E m \in live : DeleteMessage(m) /\ UNCHANGED callerVars

SpecStream == InitStream /\ [][NextStream]_vars

\* no recorded call raised
Unraised == \A i \in 1..Len(log) : log[i].did.raised = "none"

\* One task driven through start(), update(a), update(b), complete(c), each call
\* made when the one before it has returned, and the history of these calls;
\* time passes and messages may be deleted in between.
InitScenario == Init /\ kind = "task"

NextScenario ==
    \/ Len(log) = 0 /\ (\E s \in OptTexts : Start(s)) /\ Record
    \/ Len(log) \in {1, 2} /\ Unraised /\ (\E s \in Texts : Update(s, TRUE)) /\ Record
    \/ Len(log) = 3 /\ Unraised /\ (\E s \in Texts : Complete(s)) /\ Record
    \/ Tick /\ UNCHANGED callerVars
    \/ \E m \in live : DeleteMessage(m) /\ UNCHANGED callerVars

SpecScenario == InitScenario /\ [][NextScenario]_vars

\* One task on which start() and the terminal calls are made at any time after
\* its construction, and the history of these calls; the wall clock advances
\* and may be set back.
InitElapsed == Init /\ kind = "task"

NextElapsed ==
    \/ Len(log) < MaxCalls /\ Start(NoText) /\ Record
    \/ Len(log) < MaxCalls /\ Complete(NoText) /\ Record
    \/ Len(log) < MaxCalls /\ (\E s \in ErrorTexts : Error(s)) /\ Record
    \/ Tick /\ UNCHANGED callerVars
    \/ ClockSetBack /\ UNCHANGED callerVars

SpecElapsed == InitElapsed /\ [][NextElapsed]_vars

----------------------------------------------------------------------------
(* run_with_progress *)

\* the lists of at most n status texts
RECURSIVE UpdateLists(_)
UpdateLists(n) ==
    IF n = 0 THEN {<<>>}
    ELSE UpdateLists(n - 1)
         \cup {Append(l, t) : l \in {u \in UpdateLists(n - 1) : Len(u) = n - 1}, t \in Texts}

\* str(e) of an exception, as a status text
Str(e) == <<e>>

\* where run_with_progress goes when the call just made raised: into its
\* except clause with that exception, and to next otherwise
AfterCall(next) ==
    IF last'.raised # "none"
    THEN [run EXCEPT !.pc = "except", !.exc = last'.raised]
    ELSE [run EXCEPT !.pc = next]

\* progress = ProgressiveTask(channel, task_name); await progress.start()
RunStart(updates) ==
    /\ run = Idle
    /\ Start(NoText)
    /\ run' = [pc |-> IF updates # <<>> THEN "update" ELSE "task", updates |-> updates,
               task |-> "none", exc |-> "none", out |-> "none"]

\* for update in updates: await progress.update(update)
RunUpdate ==
    /\ run # Idle /\ run.pc = "update"
    /\ Update(Head(run.updates), TRUE)
    /\ run' = [AfterCall("sleep") EXCEPT !.updates = Tail(run.updates)]

\* await asyncio.sleep(0.5), and on to the next update or to the task
RunSleep ==
    /\ run # Idle /\ run.pc = "sleep"
    /\ TickUpTo(ClockStart + MaxUpdates + MaxTicks)
    /\ run' = [run EXCEPT !.pc = IF run.updates # <<>> THEN "update" ELSE "task"]

\* result = await task_func(): it returns or it raises
RunTask(outcome) ==
    /\ run # Idle /\ run.pc = "task"
    /\ run' = IF outcome = "returned"
              THEN [run EXCEPT !.pc = "complete", !.task = outcome]
              ELSE [run EXCEPT !.pc = "except", !.task = outcome, !.exc = TaskFailure]
    /\ last' = Did("task", <<>>, FALSE, IF outcome = "returned" THEN "none" ELSE TaskFailure, <<>>)
    /\ UNCHANGED <<kind, clock, live, msgCount, message, taskVars, streamVars, botVars>>

\* await progress.complete(); return result
RunComplete ==
    /\ run # Idle /\ run.pc = "complete"
    /\ Complete(NoText)
    /\ run' = IF last'.raised # "none"
              THEN [run EXCEPT !.pc = "except", !.exc = last'.raised]
              ELSE [run EXCEPT !.pc = "returned", !.out = TaskResult]

\* except Exception as e: await progress.error(str(e)); raise
RunError ==
    /\ run # Idle /\ run.pc = "except"
    /\ Error(Str(run.exc))
    /\ run' = [run EXCEPT !.pc = "raised",
                          !.out = IF last'.raised # "none" THEN last'.raised ELSE run.exc]

\* One call of run_with_progress and the history of the calls it makes on its
\* reporter; the task takes time and messages may be deleted meanwhile.
InitRun == Init /\ kind = "task"

NextRun ==
    \/ \E u \in UpdateLists(MaxUpdates) : RunStart(u) /\ Recorded /\ UNCHANGED procs
    \/ RunUpdate /\ Recorded /\ UNCHANGED procs
    \/ RunSleep /\ UNCHANGED <<log, procs>>
    \/ \E o \in {"returned", "raised"} : RunTask(o) /\ UNCHANGED <<log, procs>>
    \/ RunComplete /\ Recorded /\ UNCHANGED procs
    \/ RunError /\ Recorded /\ UNCHANGED procs
    \/ /\ run # Idle /\ run.pc = "task"
       /\ TickUpTo(ClockStart + MaxUpdates + MaxTicks) /\ UNCHANGED callerVars
    \/ \E m \in live : DeleteMessage(m) /\ UNCHANGED callerVars

SpecRun == InitRun /\ [][NextRun]_vars

----------------------------------------------------------------------------
(* parallel_tasks_with_status *)

\* the name of the i-th entry of tasks
Name(i) == "T" \o ToString(i)

\* f"Running {len(tasks)} tasks..."
RunningText(n) == <<"Running ", ToString(n), " tasks...">>

\* f"{name}: Started"
StartedText(name) == <<name, ": Started">>

\* f"{name}: ✓ Complete"
CompleteText(name) == <<name, ": ", "CHECK", " Complete">>

\* f"{name}: ❌ Failed - {e}"
FailedText(name, e) == <<name, ": ", "CROSS", " Failed - ", e>>

\* f"Completed: {successful}/{len(tasks)} successful"
SummaryText(successful, n) ==
    <<"Completed: ", ToString(successful), "/", ToString(n), " successful">>

\* run_task(name, coro) as gather() has scheduled it, not yet run
NewProc(name) ==
    [name |-> name, pc |-> "new", stage |-> "started", target |-> 0, text |-> <<>>,
     exc |-> "none", outcome |-> "none"]

\* run_task p when its progress.update() has returned (raised = "none") or
\* raised: after "Started" it awaits its coro, or ends with the exception;
\* after "Complete" it returns the result; after "Failed" it raises, the
\* exception of its coro or the one update() raised
AfterUpdate(proc, raised) ==
    IF proc.stage = "started" /\ raised = "none"
    THEN [proc EXCEPT !.pc = "run", !.target = 0, !.text = <<>>]
    ELSE [proc EXCEPT !.pc = "done", !.target = 0, !.text = <<>>,
                      !.outcome = IF raised # "none" THEN raised
                                  ELSE IF proc.stage = "complete" THEN TaskResult
                                  ELSE proc.exc]

\* progress.update(status, append) called by run_task p, up to its first await:
\* the lines are changed and the edit of the owned message is under way
BeginUpdate(p, stage, status, append, exc) ==
    LET lines == UpdatedLines(status_lines, status, append)
        proc == [procs[p] EXCEPT !.stage = stage, !.exc = exc]
    IN  /\ status_lines' = lines
        /\ procs' = [procs EXCEPT ![p] =
                        IF message # 0
                        THEN [proc EXCEPT !.pc = "edit", !.target = message,
                                          !.text = FormatStatus(lines)]
                        ELSE AfterUpdate(proc, "none")]

\* progress.update() of run_task p returns or raises; raised by the "Complete"
\* update, the exception is caught by run_task, which calls update() again
EndUpdate(p, raised) ==
    IF procs[p].stage = "complete" /\ raised # "none"
    THEN BeginUpdate(p, "failed", FailedText(procs[p].name, raised), FALSE, raised)
    ELSE /\ procs' = [procs EXCEPT ![p] = AfterUpdate(procs[p], raised)]
         /\ UNCHANGED status_lines

\* progress = ProgressiveTask(...); await progress.start(...); gather(...)
ParStart(n) ==
    /\ run = Idle
    /\ Start(RunningText(n))
    /\ run' = [pc |-> "gather", out |-> <<>>]
    /\ procs' = [i \in 1..n |-> NewProc(Name(i))]

\* run_task p starts: await progress.update(f"{name}: Started")
ProcStart(p) ==
    /\ procs[p].pc = "new"
    /\ BeginUpdate(p, "started", StartedText(procs[p].name), TRUE, "none")
    /\ last' = Did("update_begin", StartedText(procs[p].name), TRUE, "none", <<>>)
    /\ UNCHANGED <<kind, clock, live, msgCount, message, start_time, is_complete,
                   starts, terminals, streamVars, botVars>>

\* the coro of run_task p ends, and run_task calls update(..., append=False)
ProcCoroEnds(p, outcome) ==
    /\ procs[p].pc = "run"
    /\ LET status == IF outcome = "returned" THEN CompleteText(procs[p].name)
                     ELSE FailedText(procs[p].name, TaskFailure)
       IN  /\ BeginUpdate(p, IF outcome = "returned" THEN "complete" ELSE "failed",
                          status, FALSE,
                          IF outcome = "returned" THEN "none" ELSE TaskFailure)
           /\ last' = Did("update_begin", status, FALSE, "none", <<>>)
    /\ UNCHANGED <<kind, clock, live, msgCount, message, start_time, is_complete,
                   starts, terminals, streamVars, botVars>>

\* the edit awaited by update() of run_task p returns or raises; on NotFound
\* update() awaits channel.send(self._format_status())
ProcEditReturns(p) ==
    /\ procs[p].pc = "edit"
    /\ \E r \in EditResults(procs[p].target) :
          /\ last' = Did("edit_returns", <<>>, FALSE, r,
                         <<EditCall(procs[p].target, procs[p].text, r)>>)
          /\ IF r \in CaughtByUpdate
             THEN /\ procs' = [procs EXCEPT ![p].pc = "send",
                                            ![p].text = FormatStatus(status_lines)]
                  /\ UNCHANGED status_lines
             ELSE EndUpdate(p, IF r = "ok" THEN "none" ELSE r)
    /\ UNCHANGED <<kind, clock, live, msgCount, message, start_time, is_complete,
                   starts, terminals, streamVars, botVars>>

\* the send awaited by update() of run_task p returns: self.message = ...
ProcSendReturns(p) ==
    /\ procs[p].pc = "send"
    /\ SendNew(procs[p].text)
    /\ last' = Did("send_returns", <<>>, FALSE, "none",
                   <<SendCall(msgCount + 1, procs[p].text)>>)
    /\ EndUpdate(p, "none")
    /\ UNCHANGED <<kind, clock, start_time, is_complete, starts, terminals, streamVars, botVars>>

\* an exception instance, as gather(return_exceptions=True) returns it
IsException(r) == r # TaskResult

\* gather() returns; successful = ...; await progress.complete(...);
\* return dict(zip(tasks.keys(), results))
ParSummary ==
    /\ run # Idle /\ run.pc = "gather"
    /\ \A p \in 1..Len(procs) : procs[p].pc = "done"
    /\ LET n == Len(procs)
           successful == Cardinality({p \in 1..n : ~IsException(procs[p].outcome)})
       IN  /\ Complete(SummaryText(successful, n))
           /\ run' = IF last'.raised # "none"
                     THEN [pc |-> "raised", out |-> <<last'.raised>>]
                     ELSE [pc |-> "returned",
                           out |-> [p \in 1..n |-> <<procs[p].name, procs[p].outcome>>]]
    /\ UNCHANGED procs

\* One call of parallel_tasks_with_status: the run_task coroutines share one
\* ProgressiveTask and are resumed in any order; messages may be deleted and
\* time passes meanwhile.
InitParallel == Init /\ kind = "task"

NextParallel ==
    \/ \E n \in 0..MaxTasks : ParStart(n) /\ UNCHANGED log
    \/ \E p \in 1..Len(procs) : ProcStart(p) /\ UNCHANGED <<log, run>>
    \/ \E p \in 1..Len(procs), o \in {"returned", "raised"} :
          ProcCoroEnds(p, o) /\ UNCHANGED <<log, run>>
    \/ \E p \in 1..Len(procs) : ProcEditReturns(p) /\ UNCHANGED <<log, run>>
    \/ \E p \in 1..Len(procs) : ProcSendReturns(p) /\ UNCHANGED <<log, run>>
    \/ ParSummary /\ UNCHANGED log
    \/ run # Idle /\ run.pc = "gather" /\ Tick /\ UNCHANGED callerVars
    \/ \E m \in live : DeleteMessage(m) /\ UNCHANGED callerVars

SpecParallel == InitParallel /\ [][NextParallel]_vars

----------------------------------------------------------------------------
(* on_message *)

\* the variables of the reporter and of its callers
objectVars == <<kind, clock, live, msgCount, message, taskVars, streamVars, last>>

\* channel names, as they are written on the server
ChannelNames ==
    {"developer", "Dev", "bot-dev", "claude-dev-backchannel", "stats", "FGC-Stats",
     "general"}

\* name.lower(), for the names above
Lower(name) ==
    IF name = "Dev" THEN "dev" ELSE IF name = "FGC-Stats" THEN "fgc-stats" ELSE name

\* on_message: is_dev_channel
OnMessageDevChannels ==
    {"developer", "developers", "dev", "bot-dev", "claude-dev-backchannel"}

\* a stats list that also answers in #general
StatsChannelsWide ==
    {"stats", "statistics", "fgc-stats", "tournament-stats", "general"}

\* on_message: is_stats_channel
StatsChannels == {"stats", "statistics", "fgc-stats", "tournament-stats"}

\* the commands of the DeveloperCommands cog
DevCommands ==
    {"query", "logs", "errors", "dbstats", "reload", "exec", "write", "read", "services"}

\* is_developer_channel: the channel names that pass
DevCommandChannels == {"developer", "developers", "dev", "bot-dev"}

\* What the handler tests of message.content: bang, it starts with "!", and
\* command, the command it then names ("other": not a developer command);
\* status, it is a short status check; heatmap, it asks for heat maps; exec,
\* the request handle_developer_execution finds in it.
Contents ==
    {c \in [bang : BOOLEAN, command : DevCommands \cup {"other", "none"},
            status : BOOLEAN, heatmap : BOOLEAN,
            exec : {"none", "sql", "file", "python", "rankings"}] :
        c.bang <=> c.command # "none"}

\* the messages: direct messages have no channel name
Messages ==
    [author : {"bot", "user"}, dm : {TRUE}, channel : {"direct_message"}, content : Contents]
    \cup [author : {"bot", "user"}, dm : {FALSE}, channel : ChannelNames, content : Contents]

\* a fixed text of n characters, named by what it says
Fixed(name, n) == <<[ch |-> name, n |-> n]>>

\* a text of a characters "x" followed by b characters "y"
Text2(a, b) ==
    (IF a > 0 THEN <<[ch |-> "x", n |-> a]>> ELSE <<>>)
        \o (IF b > 0 THEN <<[ch |-> "y", n |-> b]>> ELSE <<>>)

\* lengths of the responses of the AI
ResponseLens == {0, 1, 1900, 1901, 2000, 2001, 3800, 3801, 5700, 5701}

\* the responses of the AI
Responses ==
    {Text2(p[1], p[2] - p[1]) :
        p \in {q \in {0, 1, 1900, 2000} \X ResponseLens : q[1] <= q[2]}}

RECURSIVE Drop(_, _)
\* text[k:] for a text given as runs
Drop(text, k) ==
    IF k <= 0 \/ text = <<>> THEN text
    ELSE IF text[1].n <= k THEN Drop(Tail(text), k - text[1].n)
    ELSE <<[ch |-> text[1].ch, n |-> text[1].n - k]>> \o Tail(text)

RECURSIVE ChunksOf(_, _)
\* [text[i:i+size] for i in range(0, len(text), size)]
ChunksOf(text, size) ==
    IF TextLen(text) = 0 THEN <<>>
    ELSE <<Prefix(text, size)>> \o ChunksOf(Drop(text, size), size)

\* the reply that does not split
ReplyTextsWhole(text) == <<text>>

\* the reply that splits from ChunkSize on
ReplyTextsEager(text) ==
    IF TextLen(text) > ChunkSize THEN ChunksOf(text, MsgLimit) ELSE <<text>>

\* the texts sent for a response: chunks when len(response) > 2000
ReplyTexts(text) ==
    IF TextLen(text) > MsgLimit THEN ChunksOf(text, ChunkSize) ELSE <<text>>

\* where on_message goes with message m, up to the developer execution or the
\* AI response
Route(m) ==
    IF m.author = "bot" THEN "ignored"
    ELSE IF m.content.bang THEN "commands"
    ELSE IF m.dm
    THEN IF m.content.status THEN "status"
         ELSE IF m.content.heatmap THEN "heatmap"
         ELSE "ai"
    ELSE LET channel_name == Lower(m.channel)
             is_dev_channel == channel_name \in OnMessageDevChannels
             is_stats_channel == channel_name \in StatsChannels
         IN  IF ~(is_stats_channel \/ is_dev_channel) THEN "ignored"
             ELSE IF m.content.status THEN "status"
             ELSE IF m.content.heatmap THEN "heatmap"
             ELSE IF is_dev_channel THEN "devexec"
             ELSE "ai"

\* on_message(message), up to the developer execution or the AI response
OnMessage(m) ==
    /\ botpc = "idle"
    /\ received' = m
    /\ LET to == Route(m)
       IN  /\ botpc' = IF to \in {"commands", "devexec", "ai"} THEN to ELSE "done"
           /\ reached' = IF to = "commands" THEN {"process_commands"}
                         ELSE IF to = "heatmap" THEN {"heatmap"}
                         ELSE {}
           /\ sent' = IF to = "status" THEN <<Fixed("Yes", 3)>>
                      ELSE IF to = "heatmap" THEN <<Fixed("heat maps", 9)>>
                      ELSE <<>>
    /\ UNCHANGED <<response, stdout, objectVars, callerVars>>

\* the refusal of is_developer_channel
Refusal == Fixed("This command can only be used in #developer channel", 53)

\* is_developer_channel that compares the name as it is written
PassesCheckExact(channel) == channel \in DevCommandChannels

\* is_developer_channel: the predicate, for a channel that has a name
PassesCheck(channel) == Lower(channel) \in DevCommandChannels

\* bot.process_commands(message) for a message of a server channel: the check
\* of a developer command, then its body or the refusal
ProcessCommands ==
    /\ botpc = "commands"
    /\ ~received.dm
    /\ LET command == received.content.command
       IN  IF command \notin DevCommands
           THEN UNCHANGED <<reached, sent>>
           ELSE IF PassesCheck(received.channel)
           THEN /\ reached' = reached \cup {"body of " \o command}
                /\ sent' = sent \o <<Fixed("output of " \o command, 10)>>
           ELSE /\ sent' = sent \o <<Refusal>>
                /\ UNCHANGED reached
    /\ botpc' = "done"
    /\ UNCHANGED <<received, response, stdout, objectVars, callerVars>>

\* handle_developer_execution(message): the request found in the content is
\* executed and True is returned, or False is returned and the AI answers;
\* raises: the executed Python code raises
HandleDeveloperExecution(raises) ==
    /\ botpc = "devexec"
    /\ LET exec == received.content.exec
       IN  IF exec = "none"
           THEN /\ botpc' = "ai"
                /\ UNCHANGED <<reached, sent, stdout>>
           ELSE /\ botpc' = "done"
                /\ reached' = reached \cup {exec}
                /\ sent' = sent \o <<Fixed(exec, 4)>>
                /\ stdout' = IF exec = "python" /\ raises THEN "buffer" ELSE stdout
    /\ UNCHANGED <<received, response, objectVars, callerVars>>

\* response = await get_ai_response(...)
GetAIResponse(r) ==
    /\ botpc = "ai"
    /\ response' = r
    /\ reached' = reached \cup {"ai"}
    /\ botpc' = "reply"
    /\ UNCHANGED <<received, sent, stdout, objectVars, callerVars>>

\* Send response (handle Discord's 2000 char limit)
SendResponse ==
    /\ botpc = "reply"
    /\ sent' = sent \o ReplyTexts(response)
    /\ botpc' = "done"
    /\ UNCHANGED <<received, response, reached, stdout, objectVars, callerVars>>

\* The handling of one message by on_message.
InitBot == Init /\ kind = "task"

NextBot ==
    \/ \E m \in Messages : OnMessage(m)
    \/ ProcessCommands
    \/ \E raises \in BOOLEAN : HandleDeveloperExecution(raises)
    \/ \E r \in Responses : GetAIResponse(r)
    \/ SendResponse

SpecBot == InitBot /\ [][NextBot]_vars

----------------------------------------------------------------------------
(* Properties *)

TaskOps == {"update", "complete", "error"}

EditIndexes(calls) == {i \in 1..Len(calls) : calls[i].call = "edit"}
SendIndexes(calls) == {i \in 1..Len(calls) : calls[i].call = "send"}

NonBulletCount(lines) == Cardinality({i \in 1..Len(lines) : ~IsBullet(lines[i])})

BulletIndexes(lines) == {i \in 1..Len(lines) : IsBullet(lines[i])}

\* the index of the last bullet line of lines (which has one)
LastBulletIndex(lines) ==
    CHOOSE i \in BulletIndexes(lines) : \A j \in BulletIndexes(lines) : j <= i

\* start() has been called and neither complete() nor error() has
Active == kind = "task" /\ starts >= 1 /\ terminals = 0

\* C1: once complete() or error() has been called, every later update(),
\* complete() or error() leaves status_lines unchanged and edits no message.
C1_TerminalIsFinal ==
    [][(is_complete /\ last'.op \in TaskOps)
        => (status_lines' = status_lines /\ EditIndexes(last'.calls) = {})]_vars

\* C2: a second terminal call (complete() or error(), in any combination)
\* appends no further closing line: status_lines stays what the first left.
C2_TerminalIdempotent ==
    [][(terminals >= 1 /\ last'.op \in {"complete", "error"})
        => status_lines' = status_lines]_vars

\* C3: update() on a task that owns a message edits that message with the
\* rendered status; when the message no longer exists, the edit fails with
\* NotFound, exactly one new message carrying the rendered status is sent, it
\* becomes the owned message (so that the next edit targets it), and update
\* does not raise.
C3_UpdateRecoversFromNotFound ==
    [][(last'.op = "update" /\ message # 0)
        => LET c == last'.calls
               text == Join(WindowedLines(status_lines'))
           IN  /\ Len(c) >= 1
               /\ c[1].call = "edit" /\ c[1].msg = message /\ c[1].text = text
               /\ message \notin live =>
                    /\ c = <<EditCall(message, text, "NotFound"),
                             SendCall(msgCount + 1, text)>>
                    /\ msgCount' = msgCount + 1
                    /\ live' = live \cup {msgCount + 1}
                    /\ message' = msgCount + 1
                    /\ last'.raised = "none"]_vars

\* C3 happens: with start() called once, update() found message 2, itself a
\* replacement, deleted and replaced it by message 3.
C3_Witness ==
    /\ kind = "task" /\ starts = 1 /\ last.op = "update"
    /\ Len(last.calls) = 2
    /\ last.calls[1].msg = 2 /\ last.calls[1].result = "NotFound"
    /\ message = 3 /\ message \in live

\* C4: when the final edit of complete() or error() fails because the owned
\* message no longer exists, a replacement is sent and becomes the owned
\* message, and the call does not raise.
C4_TerminalRecoversFromNotFound ==
    (/\ last.op \in {"complete", "error"}
     /\ Len(last.calls) >= 1
     /\ last.calls[1].result = "NotFound")
    => /\ last.raised = "none"
       /\ Len(last.calls) = 2
       /\ last.calls[2].call = "send"
       /\ message = last.calls[2].msg

C7_OneNonBullet ==
    Active => NonBulletCount(status_lines) = 1

\* C7 as amended: after start(), for every sequence of update() calls, the
\* first line is the header, which is not a bullet line, every line from the
\* third on is a bullet line, and the second line is the initial status line
\* that start() wrote without a bullet, or a bullet line once a replace-mode
\* update has overwritten it: 2 lines are not bullet lines right after
\* start(), and never more than 2 nor fewer than 1.
C7_HeaderAndInitialStatus ==
    Active =>
        /\ Len(status_lines) >= 2
        /\ status_lines[1] = <<"**", TaskName, "**">>
        /\ ~IsBullet(status_lines[1])
        /\ \A i \in 3..Len(status_lines) : IsBullet(status_lines[i])
        /\ \/ IsBullet(status_lines[2])
           \/ status_lines[2] \in {<<"Starting ", TaskName, "...">>} \cup (OptTexts \ {<<>>})
        /\ NonBulletCount(status_lines) \in {1, 2}
        /\ last.op = "start" => NonBulletCount(status_lines) = 2

\* C7's case happens: updates were appended after start() and the header and
\* the initial status line are the two lines that are not bullet lines.
C7_Witness ==
    /\ Active /\ last.op = "update"
    /\ Len(status_lines) >= 4
    /\ NonBulletCount(status_lines) = 2

\* an active task that owns a message is updated
UpdateOfActive == Active /\ message # 0 /\ last'.op = "update"

\* C8 as stated: update(status, append) appends one bullet line when append is
\* true; when it is false it replaces the last bullet line by the new bullet
\* line and changes no other line; either way it attempts one edit of the
\* owned message with the rendered status.
C8_UpdateReplacesLastBullet ==
    [][UpdateOfActive
        => /\ IF last'.append
              THEN status_lines' = Append(status_lines, <<"BULLET", " ">> \o last'.arg)
              ELSE /\ BulletIndexes(status_lines) # {}
                   /\ status_lines' =
                        [status_lines EXCEPT ![LastBulletIndex(status_lines)] =
                                                <<"BULLET", " ">> \o last'.arg]
           /\ Cardinality(EditIndexes(last'.calls)) = 1
           /\ last'.calls[1] = EditCall(message, Join(WindowedLines(status_lines')),
                                        last'.calls[1].result)]_vars

\* C8 as amended: update(status, append) appends one bullet line when append is
\* true; when it is false it replaces the last line, bullet line or not, by the
\* new bullet line and changes no other line; either way it attempts one edit
\* of the owned message with the rendered status.
C8_UpdateReplacesLastLine ==
    [][(last'.op = "update" /\ message # 0)
        => /\ IF last'.append
              THEN status_lines' = Append(status_lines, <<"BULLET", " ">> \o last'.arg)
              ELSE /\ Len(status_lines') = Len(status_lines)
                   /\ status_lines'[Len(status_lines)] = <<"BULLET", " ">> \o last'.arg
                   /\ \A i \in 1..(Len(status_lines) - 1) :
                          status_lines'[i] = status_lines[i]
           /\ Cardinality(EditIndexes(last'.calls)) = 1
           /\ last'.calls[1] = EditCall(message, Join(WindowedLines(status_lines')),
                                        last'.calls[1].result)]_vars

\* C8's cases happen: a replace-mode update overwrote the last line of a list
\* of at least 3 lines and edited the owned message.
C8_Witness ==
    /\ kind = "task" /\ last.op = "update" /\ ~last.append
    /\ Len(status_lines) >= 3
    /\ status_lines[Len(status_lines)] = <<"BULLET", " ">> \o last.arg
    /\ last.calls = <<EditCall(message, FormatStatus(status_lines), "ok")>>

\* C9: start() sends exactly one new message and edits nothing; afterwards
\* status_lines is the header line of the task name followed by one status
\* line (the given one, or "Starting <name>..."), the message sent carries
\* both, and it is the owned message.
C9_StartSendsOnce ==
    [][last'.op = "start"
        => LET status == IF last'.arg # <<>> THEN last'.arg
                         ELSE <<"Starting ", TaskName, "...">>
           IN  /\ status_lines' = << <<"**", TaskName, "**">>, status >>
               /\ msgCount' = msgCount + 1
               /\ live' = live \cup {msgCount + 1}
               /\ message' = msgCount + 1
               /\ last'.calls = <<SendCall(msgCount + 1,
                                          <<"**", TaskName, "**", "NL">> \o status)>>
               /\ last'.raised = "none"]_vars

\* C9 happens: start() without an initial status sent the first message.
C9_Witness ==
    /\ last.op = "start" /\ last.arg = <<>>
    /\ message = 1 /\ live = {1}
    /\ Len(status_lines) = 2
    /\ Len(last.calls) = 1 /\ last.calls[1].call = "send"

\* C10: complete(final_status) appends the closing line only when one is
\* given, then the completion line with the elapsed time as the last line,
\* changes no earlier line, sets is_complete and, on a task that owns a
\* message, performs exactly one edit, with the rendered status.
C10_CompleteAppends ==
    [][last'.op = "complete"
        => LET done == <<"CHECK", " Complete (">> \o Fmt1(clock - start_time) \o <<"s)">>
           IN  /\ status_lines' = IF last'.arg # <<>>
                                  THEN status_lines \o <<last'.arg, done>>
                                  ELSE status_lines \o <<done>>
               /\ is_complete'
               /\ message # 0 =>
                    /\ Len(last'.calls) = 1
                    /\ last'.calls[1] = EditCall(message, Join(WindowedLines(status_lines')),
                                                 last'.calls[1].result)]_vars

\* C10 happens: complete() with a closing line, called after time has passed,
\* appended both lines and edited the owned message.
C10_Witness ==
    /\ last.op = "complete" /\ last.arg # <<>> /\ last.raised = "none"
    /\ clock > start_time
    /\ is_complete
    /\ Len(last.calls) = 1 /\ last.calls[1].call = "edit"
    /\ Len(status_lines) >= 4

\* C11: error(msg) appends exactly two lines, the error line containing msg
\* and then the failed-after line with the elapsed time, changes no earlier
\* line, sets is_complete and, on a task that owns a message, performs exactly
\* one edit, with the rendered status.
C11_ErrorAppends ==
    [][last'.op = "error"
        => /\ status_lines' =
                status_lines \o << <<"CROSS", " Error: ">> \o last'.arg,
                                   <<"Failed after ">> \o Fmt1(clock - start_time) \o <<"s">> >>
           /\ is_complete'
           /\ message # 0 =>
                /\ Len(last'.calls) = 1
                /\ last'.calls[1] = EditCall(message, Join(WindowedLines(status_lines')),
                                             last'.calls[1].result)]_vars

\* C11 happens: error() called on a started task after time has passed
\* appended its two lines and edited the owned message.
C11_Witness ==
    /\ last.op = "error" /\ last.raised = "none"
    /\ clock > start_time
    /\ is_complete
    /\ Len(status_lines) = 4
    /\ Len(last.calls) = 1 /\ last.calls[1].call = "edit"

RECURSIVE CallsOf(_)
\* the sends and edits of the recorded calls, in the order they were made
CallsOf(h) ==
    IF h = <<>> THEN <<>> ELSE h[1].did.calls \o CallsOf(Tail(h))

\* no send and no edit of the recorded calls failed
NoEditFailed == \A i \in 1..Len(CallsOf(log)) : CallsOf(log)[i].result = "ok"

\* text occurs in line
Contains(line, text) ==
    \E k \in 1..(Len(line) - Len(text) + 1) : SubSeq(line, k, k + Len(text) - 1) = text

\* the recorded calls are start(), update(a), update(b), complete(c)
ScenarioDone ==
    /\ Len(log) = 4
    /\ <<log[1].did.op, log[2].did.op, log[3].did.op, log[4].did.op>>
           = <<"start", "update", "update", "complete">>

\* C12: when no edit fails, start(), update(a), update(b), complete(c) make
\* one send and then three edits of the message sent, and the last text shown
\* has the header, a, b, c and the line with the elapsed time on lines of their
\* own, in this order.
C12_ScenarioSendThenEdits ==
    (ScenarioDone /\ NoEditFailed)
    => LET calls == CallsOf(log)
           shown == SplitLines(calls[Len(calls)].text)
       IN  /\ Len(calls) = 4
           /\ calls[1].call = "send"
           /\ \A i \in 2..4 : calls[i].call = "edit" /\ calls[i].msg = calls[1].msg
           /\ \E h, i, j, k, l \in 1..Len(shown) :
                 /\ h < i /\ i < j /\ j < k /\ k < l
                 /\ shown[h] = <<"**", "Sync", "**">>
                 /\ IsBullet(shown[i]) /\ Contains(shown[i], log[2].did.arg)
                 /\ IsBullet(shown[j]) /\ Contains(shown[j], log[3].did.arg)
                 /\ shown[k] = log[4].did.arg
                 /\ shown[l] = <<"CHECK", " Complete (">>
                                  \o Fmt1(log[4].began - start_time) \o <<"s)">>

\* C12 happens: the four calls were made with two different updates, no edit
\* failed, and time passed before complete().
C12_Witness ==
    /\ ScenarioDone /\ NoEditFailed
    /\ log[2].did.arg # log[3].did.arg
    /\ log[4].began > start_time
    /\ message \in live

----------------------------------------------------------------------------
(* Properties of the elapsed time *)

\* the recorded calls of start() before call j
StartsBefore(j) == {i \in 1..(j - 1) : log[i].did.op = "start"}

\* the last element of a non-empty set of numbers
Latest(S) == CHOOSE i \in S : \A k \in S : k <= i

\* C22: the elapsed time a terminal call reports is the time from the start()
\* call to the terminal call, it is not negative, and a later terminal call
\* after the same start() reports no less than an earlier one.
C22_ElapsedSinceStart ==
    (/\ Len(log) >= 1 /\ log[Len(log)].did = last
     /\ last.op \in {"complete", "error"}
     /\ StartsBefore(Len(log)) # {})
    => LET j == Len(log)
           s == Latest(StartsBefore(j))
           e == log[j].began - log[s].began
           line == status_lines[Len(status_lines)]
       IN  /\ e >= 0
           /\ line = IF last.op = "complete"
                     THEN <<"CHECK", " Complete (">> \o Fmt1(e) \o <<"s)">>
                     ELSE <<"Failed after ">> \o Fmt1(e) \o <<"s">>
           /\ \A i \in (s + 1)..(j - 1) :
                 log[i].did.op \in {"complete", "error"}
                    => log[i].began - log[s].began <= e

----------------------------------------------------------------------------
(* Properties of run_with_progress *)

\* run_with_progress is over: it returned or it raised
RunOver == run # Idle /\ run.pc \in {"returned", "raised"}

\* the recorded calls of op
CallsTo(op) == {i \in 1..Len(log) : log[i].did.op = op}

\* C19: when the task function raises, error() is called with the text of the
\* exception, complete() is not called and the exception of the task is raised
\* to the caller; when it returns, complete() is called and its result is
\* returned.
C19_RunReportsOutcome ==
    (RunOver /\ run.task # "none")
    => IF run.task = "raised"
       THEN /\ \E i \in CallsTo("error") : log[i].did.arg = <<"TaskError">>
            /\ CallsTo("complete") = {}
            /\ run.pc = "raised" /\ run.out = "TaskError"
       ELSE /\ CallsTo("complete") # {}
            /\ run.pc = "returned" /\ run.out = "R"

\* the lines of the text of the last send or edit of the call just made
ShownLines == SplitLines(last.calls[Len(last.calls)].text)

\* C27: after start() there are at least 2 status lines and the first is the
\* header; every text sent or edited begins with the header line and ends
\* with the line written last, with or without the window.
C27_HeaderFirstLatestLast ==
    starts >= 1
    => /\ Len(status_lines) >= 2
       /\ status_lines[1] = <<"**", "Sync", "**">>
       /\ (last.op \in {"start", "update", "complete", "error"} /\ last.calls # <<>>)
          => /\ ShownLines[1] = <<"**", "Sync", "**">>
             /\ ShownLines[Len(ShownLines)] = status_lines[Len(status_lines)]
             /\ last.op = "update"
                   => ShownLines[Len(ShownLines)] = <<"BULLET", " ">> \o last.arg

\* C27 happens: with more than 10 lines, an update in replace mode edited the
\* message.
C27_Witness ==
    /\ starts >= 1
    /\ Len(status_lines) > 10
    /\ last.op = "update" /\ ~last.append /\ last.calls # <<>>
    /\ Len(ShownLines) = 10

\* status_lines has a line that begins with the token first
HasLine(first) ==
    \E i \in 1..Len(status_lines) :
        Len(status_lines[i]) >= 1 /\ status_lines[i][1] = first

\* C26: when run_with_progress is over, exactly one terminal call was made on
\* the reporter, and the status does not hold both a completion line and a
\* failure line.
C26_OneTerminalCall ==
    RunOver
    => /\ Cardinality(CallsTo("complete") \cup CallsTo("error")) = 1
       /\ ~(HasLine("CHECK") /\ HasLine("CROSS"))

----------------------------------------------------------------------------
(* Properties of parallel_tasks_with_status *)

\* run_task p is inside progress.update(), waiting for its edit or its send
InUpdate(p) == procs[p].pc \in {"edit", "send"}

\* C20: the calls made on one ProgressiveTask never interleave: at any time at
\* most one of the concurrently running tasks is inside update().
C20_OneCallerAtATime ==
    \A p, q \in 1..Len(procs) : (InUpdate(p) /\ InUpdate(q)) => p = q

\* the coro of run_task p raised
TaskRaised(p) == procs[p].exc = "TaskError"

\* parallel_tasks_with_status has just called complete() with its summary
SummaryMade == run # Idle /\ run.pc # "gather" /\ last.op = "complete"

\* C21: the summary is made when every task has finished, its count is the
\* number of tasks that did not raise, and the mapping returned has one entry
\* for each task name, with the result of the task or its exception.
C21_SummaryCountsTasks ==
    SummaryMade
    => LET n == Len(procs)
       IN  /\ \A p \in 1..n : procs[p].pc = "done"
           /\ last.arg = <<"Completed: ",
                           ToString(Cardinality({p \in 1..n : ~TaskRaised(p)})),
                           "/", ToString(n), " successful">>
           /\ run.pc = "returned"
           /\ Len(run.out) = n
           /\ \A p \in 1..n :
                 run.out[p] = <<"T" \o ToString(p),
                                IF TaskRaised(p) THEN "TaskError" ELSE "R">>

\* every run_task has ended and the summary is still to be made
AllTasksDone ==
    /\ run # Idle /\ run.pc = "gather"
    /\ \A p \in 1..Len(procs) : procs[p].pc = "done"

\* the status lines that are about the task named name
LinesOf(name) ==
    {i \in 1..Len(status_lines) :
        Len(status_lines[i]) >= 3 /\ status_lines[i][1] = "BULLET"
        /\ status_lines[i][3] = name}

\* C25: the final update of a task overwrites that task's own "Started" line:
\* when all tasks have finished, the status has exactly one line for each task,
\* and it shows the outcome of that task.
C25_OneLinePerTask ==
    AllTasksDone
    => \A p \in 1..Len(procs) :
          \E i \in 1..Len(status_lines) :
             /\ LinesOf(procs[p].name) = {i}
             /\ status_lines[i] =
                   IF procs[p].outcome = "R"
                   THEN <<"BULLET", " ", procs[p].name, ": ", "CHECK", " Complete">>
                   ELSE <<"BULLET", " ", procs[p].name, ": ", "CROSS", " Failed - ",
                          procs[p].outcome>>

----------------------------------------------------------------------------
(* Properties of StreamingResponse *)

StreamOps == {"add_chunk", "finish"}

RECURSIVE CharAt(_, _)
\* text[i-1]: the i-th character of a text given as runs (1 <= i <= its length)
CharAt(text, i) ==
    IF i <= text[1].n THEN text[1].ch ELSE CharAt(Tail(text), i - text[1].n)

\* the positions at which a run of the text ends
RunEnds(text) == {TextLen(SubSeq(text, 1, k)) : k \in 1..Len(text)}

\* shown and whole, texts given as runs, hold the same characters at 1..n:
\* both are constant between the ends of their runs, so it is enough to
\* compare them where a run begins
SameUpTo(shown, whole, n) ==
    /\ TextLen(shown) >= n /\ TextLen(whole) >= n
    /\ \A i \in ({1} \cup {e + 1 : e \in RunEnds(shown) \cup RunEnds(whole)}) \cap (1..n) :
          CharAt(shown, i) = CharAt(whole, i)

\* shown is the first 1900 characters of whole followed by "..."
CutOf(shown, whole) ==
    /\ TextLen(shown) = 1903
    /\ SameUpTo(shown, whole, 1900)
    /\ \A i \in 1901..1903 : CharAt(shown, i) = "."

\* calls is one flush of text by an instance that owned the message owned (0:
\* none): an initial send, or an edit of the owned message, followed by the
\* send of a replacement when that edit failed
OneFlush(calls, owned, text) ==
    /\ Len(calls) \in {1, 2}
    /\ \A i \in 1..Len(calls) : calls[i].text = text
    /\ IF owned = 0
       THEN Len(calls) = 1 /\ calls[1].call = "send"
       ELSE /\ calls[1].call = "edit" /\ calls[1].msg = owned
            /\ calls[1].result = "ok" <=> Len(calls) = 1
            /\ Len(calls) = 2 => calls[2].call = "send"

\* the calls of log that completed a flush
Flushes(h) ==
    {i \in 1..Len(h) : h[i].did.op \in StreamOps /\ h[i].did.calls # <<>>
                        /\ h[i].did.raised = "none"}

\* the flush of log[i] was triggered by add_chunk
ByAddChunk(h, i) == h[i].did.op = "add_chunk" /\ h[i].did.calls # <<>>

\* the time since the last completed flush exceeds the interval (it does when
\* there was no flush yet: last_update starts at 0)
IntervalPassed ==
    \A i \in Flushes(log) : clock - log[i].ended > 1

RECURSIVE Arrived(_)
\* the chunks given to add_chunk so far, concatenated in the order of arrival
Arrived(h) ==
    IF h = <<>> THEN <<>>
    ELSE Arrived(SubSeq(h, 1, Len(h) - 1))
         \o (IF h[Len(h)].did.op = "add_chunk" THEN h[Len(h)].did.arg ELSE <<>>)

\* C13: add_chunk always appends the chunk to the buffer; when the time since
\* the last flush does not exceed the interval it sends and edits nothing; when
\* it does, it performs exactly one flush, which carries the whole buffer, cut
\* to 1900 characters and "..." only when the buffer is longer than 1900.
C13_AddChunkThrottled ==
    [][last'.op = "add_chunk"
        => /\ buffer' = buffer \o last'.arg
           /\ IF IntervalPassed
              THEN /\ last'.calls # <<>>
                   /\ OneFlush(last'.calls, message, last'.calls[1].text)
                   /\ IF TextLen(buffer') > 1900
                      THEN CutOf(last'.calls[1].text, buffer')
                      ELSE last'.calls[1].text = buffer'
              ELSE last'.calls = <<>>]_vars

\* C13's cases happen: an add_chunk flushed, the next one came within the
\* interval and flushed nothing, and a third one after the interval edited the
\* message with the cut buffer.
C13_Witness ==
    /\ Len(log) = 3
    /\ \A i \in 1..3 : log[i].did.op = "add_chunk"
    /\ log[1].did.calls # <<>>
    /\ log[2].did.calls = <<>>
    /\ Len(log[3].did.calls) = 1 /\ log[3].did.calls[1].call = "edit"
    /\ TextLen(buffer) > 1900
    /\ TextLen(log[3].did.calls[1].text) = 1903

\* C14: a flush triggered by add_chunk begins more than the interval after the
\* end of every earlier flush, so add_chunk never flushes every chunk of a
\* burst.
C14_FlushesApart ==
    \A j \in 1..Len(log) :
        ByAddChunk(log, j) =>
            \A i \in Flushes(log) : i < j => log[j].began - log[i].ended > 1

\* C14 happens: two flushes were triggered by add_chunk, the first of which
\* took time, and a chunk between them was buffered only.
C14_Witness ==
    /\ Len(log) >= 3
    /\ ByAddChunk(log, 1) /\ log[1].ended > log[1].began
    /\ log[2].did.op = "add_chunk" /\ log[2].did.calls = <<>>
    /\ ByAddChunk(log, 3)

\* C15: finish() performs exactly one flush whatever the time since the last
\* one, and the text flushed is the whole buffer, the chunks added so far in
\* the order of arrival, not truncated even when longer than 1900 characters.
C15_FinishFlushesAll ==
    [][last'.op = "finish"
        => /\ OneFlush(last'.calls, message, Arrived(log))
           /\ buffer' = Arrived(log)]_vars

\* C15 happens: finish() called within the interval after a flush edited the
\* message with a buffer of more than 1900 characters, whole.
C15_Witness ==
    /\ last.op = "finish" /\ last.raised = "none"
    /\ Len(log) >= 2 /\ log[Len(log)].did = last
    /\ (Len(log) - 1) \in Flushes(log)
    /\ log[Len(log)].began - log[Len(log) - 1].ended <= 1
    /\ last.calls = <<EditCall(message, buffer, "ok")>>
    /\ TextLen(buffer) > 1900

\* C16: a flush that is not final shows the first 1900 characters and "..."
\* when the buffer is longer than 1900 characters and the buffer as it is
\* otherwise; a final flush shows the buffer as it is; no flush shortens the
\* buffer.
C16_TruncationRule ==
    [][(last'.op \in StreamOps /\ last'.calls # <<>>)
        => LET shown == last'.calls[1].text
           IN  /\ \A i \in 1..Len(last'.calls) : last'.calls[i].text = shown
               /\ IF last'.op = "add_chunk" /\ TextLen(buffer') > 1900
                  THEN CutOf(shown, buffer')
                  ELSE shown = buffer'
               /\ buffer' = IF last'.op = "add_chunk" THEN buffer \o last'.arg ELSE buffer
               /\ SameUpTo(buffer', buffer, TextLen(buffer))]_vars

\* C16's cases happen: a flush that is not final showed a buffer of exactly
\* 1900 characters whole, a later one showed a buffer of 2000 characters cut to
\* 1903, and the buffer kept its length.
C16_Witness ==
    /\ Len(log) >= 2
    /\ ByAddChunk(log, 1) /\ TextLen(log[1].did.calls[1].text) = 1900
    /\ last.op = "add_chunk" /\ last.calls # <<>>
    /\ TextLen(last.calls[1].text) = 1903
    /\ TextLen(buffer) = 2000

\* C17: when the edit of the owned message fails because the text is too large
\* for the platform, exactly one new message with the same text is sent and
\* becomes the owned message, and the flush does not raise.
C17_TooLargeRecovered ==
    (/\ last.op \in StreamOps
     /\ Len(last.calls) >= 1
     /\ last.calls[1].call = "edit"
     /\ last.calls[1].result = "HTTPException"
     /\ TextLen(last.calls[1].text) > 2000)
    => /\ last.raised = "none"
       /\ last.calls = <<last.calls[1], SendCall(message, last.calls[1].text)>>
       /\ message \in live

\* finish() has been called
Finished == \E i \in 1..Len(log) : log[i].did.op = "finish"

\* C18: after finish(), add_chunk() and finish() change the buffer no more and
\* send and edit nothing.
C18_FinishIsFinal ==
    [][(Finished /\ last'.op \in StreamOps)
        => (buffer' = buffer /\ last'.calls = <<>>)]_vars

----------------------------------------------------------------------------
(* Properties of on_message *)

RECURSIVE Concat(_)
\* the texts of a sequence, one after the other
Concat(texts) == IF texts = <<>> THEN <<>> ELSE texts[1] \o Concat(Tail(texts))

\* a and b, texts given as runs, hold the same characters
SameText(a, b) == TextLen(a) = TextLen(b) /\ SameUpTo(a, b, TextLen(a))

\* on_message has sent its AI response
Replied == botpc = "done" /\ "ai" \in reached

\* C23: a response of more than 2000 characters is sent as chunks of at most
\* 1900 characters which, put together in the order sent, are the response; a
\* response of at most 2000 characters is sent as one message; so no message
\* has more than 2000 characters.
C23_ReplyChunks ==
    Replied
    => /\ IF TextLen(response) > 2000
          THEN /\ Len(sent) >= 2
               /\ \A i \in 1..Len(sent) :
                     TextLen(sent[i]) <= 1900 /\ TextLen(sent[i]) > 0
               /\ SameText(Concat(sent), response)
          ELSE sent = <<response>>
       /\ \A i \in 1..Len(sent) : TextLen(sent[i]) <= 2000

\* C23's cases happen: a response of 3801 characters went out as 1900, 1900
\* and 1 characters.
C23_Witness ==
    /\ Replied
    /\ TextLen(response) = 3801
    /\ Len(sent) = 3
    /\ <<TextLen(sent[1]), TextLen(sent[2]), TextLen(sent[3])>> = <<1900, 1900, 1>>

----------------------------------------------------------------------------
(* Properties of the developer commands *)

\* a developer command was invoked in a server channel and is over
Invoked ==
    /\ botpc = "done" /\ received # NoMessage
    /\ "process_commands" \in reached
    /\ received.content.command \in DevCommands

\* the bodies of developer commands that ran
Bodies == {"body of " \o c : c \in DevCommands}

Executed == reached \cap {"sql", "file", "python", "rankings"}

\* C28: developer execution (SQL, file read, Python) is carried out only for
\* a server message whose channel also passes the check of the developer
\* commands; never from a direct message or any other channel.
C28_ExecutionGatedLikeCommands ==
    Executed # {}
    => /\ ~received.dm
       /\ Lower(received.channel) \in {"developer", "developers", "dev", "bot-dev"}

\* C29: when the Python execution path has returned, sys.stdout is the
\* stream it was before the call, whether the code succeeded or raised.
C29_StdoutRestored ==
    (botpc = "done" /\ "python" \in reached) => stdout = "console"

(***************************************************************************)
(* Properties of the messages on_message leaves alone                      *)
(***************************************************************************)

\* the message is a user's server message, without '!', in a channel that is
\* in neither the stats list nor the developer list of on_message
OutsideChannel ==
    /\ received.author = "user"
    /\ ~received.content.bang
    /\ ~received.dm
    /\ Lower(received.channel) \notin
           {"stats", "statistics", "fgc-stats", "tournament-stats",
            "developer", "developers", "dev", "bot-dev", "claude-dev-backchannel"}

====
